---- MODULE Spec2Model ----
(***************************************************************************)
(* Model of streamlit_app.py: the self-correcting natural-language-to-SQL  *)
(* loop (execute_self_correcting_query), its Generator                     *)
(* (generate_sql_with_gpt + extract_sql_from_response), its Executor       *)
(* (run_query + the memoized get_db_connection) and the part of main()     *)
(* that submits a question and records the outcome.                        *)
(*                                                                         *)
(* Text is a sequence of one-character strings.  A Python Optional is a    *)
(* sequence of length 0 (None) or 1 (the value).                           *)
(***************************************************************************)
EXTENDS Integers, Sequences, FiniteSets, TLC

\* ---------------------------------------------------------------- bounds
MaxSessions == 2        \* questions submitted in one browser session
MaxRows == 1            \* largest row count a successful query returns

\* ------------------------------------------------------ program constants
MAX_ATTEMPTS == 3

\* ------------------------------------------------------------- Optionals
None == <<>>
Some(x) == <<x>>

\* ------------------------------------------------------------------ text
IsSpace(c) == c \in {" ", "\n", "\t"}

\* variant: re.IGNORECASE left out
Fold_CaseSensitive(c) == c

\* re.IGNORECASE on the letters of the tag
Fold(c) == CASE c = "S" -> "s" [] c = "Q" -> "q" [] c = "L" -> "l" [] OTHER -> c

SetMin(S) == CHOOSE x \in S : \A y \in S : x <= y
SetMax(S) == CHOOSE x \in S : \A y \in S : x >= y

\* variant: lstrip() instead of strip()
Strip_LeadingOnly(s) ==
  LET solid == {i \in 1..Len(s) : ~IsSpace(s[i])}
  IN  IF solid = {} THEN <<>> ELSE SubSeq(s, SetMin(solid), Len(s))

\* str.strip()
Strip(s) ==
  LET solid == {i \in 1..Len(s) : ~IsSpace(s[i])}
  IN  IF solid = {} THEN <<>> ELSE SubSeq(s, SetMin(solid), SetMax(solid))

\* the backquote character, which a TLA+ string literal cannot hold
BQ == "bq"

FenceOpen == <<BQ, BQ, BQ, "s", "q", "l">>
FenceClose == <<BQ, BQ, BQ>>

\* pat matches text at position i, letters compared case-insensitively
MatchAt(text, i, pat) ==
  /\ i >= 1
  /\ i + Len(pat) - 1 <= Len(text)
  /\ \A k \in 1..Len(pat) : Fold(text[i + k - 1]) = pat[k]

\* text[e..] matches \s*``` : whitespace up to a closing fence
TailMatches(text, e) ==
  \E k \in e..Len(text) :
    /\ MatchAt(text, k, FenceClose)
    /\ \A m \in e..(k - 1) : IsSpace(text[m])

\* re.search(r"```sql\s*(.*?)\s*```", text, IGNORECASE | DOTALL): the
\* leftmost opening for which the whole pattern matches; first \s* greedy,
\* group 1 lazy.  Without a match, the stripped whole text.
extract_sql_from_response(response_text) ==
  LET n == Len(response_text)
      starts == {i \in 1..n :
                   /\ MatchAt(response_text, i, FenceOpen)
                   /\ \E j \in (i + 6)..n : MatchAt(response_text, j, FenceClose)}
  IN  IF starts = {} THEN Strip(response_text)
      ELSE LET i == SetMin(starts)
               p == SetMin({q \in (i + 6)..n : ~IsSpace(response_text[q])})
               e == SetMin({q \in p..n : TailMatches(response_text, q)})
           IN  Strip(SubSeq(response_text, p, e - 1))

\* Python truthiness of an Optional str: neither None nor ""
Truthy(opt) == opt # None /\ opt[1] # <<>>
\* Python truthiness of an Optional error message (atomic strings)
TruthyMsg(opt) == opt # None /\ opt[1] # ""

\* ------------------------------------------------- environment's answers
\* Texts typed into the question box (non-empty, so the guard of line 305
\* passes); main() strips them.
Questions == { <<"x">>, <<" ", "y", "\n">> }

\* Texts the model can answer with.
ModelResponses ==
  { <<BQ, BQ, BQ, "s", "q", "l", "\n", "a", "\n", BQ, BQ, BQ>>,
    <<"o", "k", " ", BQ, BQ, BQ, "S", "Q", "L", " ", "b", " ", BQ, BQ, BQ, "!">>,
    <<" ", "a", " ">>,
    <<"b", "\n">>,
    <<BQ, BQ, BQ, "s", "q", "l", "\n", BQ, BQ, BQ>>,
    <<" ", "\n">> }

\* str(e) of the exceptions pd.read_sql_query can raise; an exception built
\* without arguments has the empty message.
ErrorMessages == {"", "column does not exist", "syntax error"}

DB_CONNECTION_ERROR == "DB_CONNECTION_ERROR"

\* --------------------------------------------------------------- Executor
\* variant: no memoization, every call connects anew
get_db_connection_NoMemo(cache) == {"conn", "none"}

\* get_db_connection under st.cache_resource: the first call connects (or
\* fails and returns None), every later call gets the memoized value.
get_db_connection(cache) == IF cache = "unset" THEN {"conn", "none"} ELSE {cache}

\* run_query(sql) on connection handle conn: the (df, error_message) pairs
\* it can return.  df is Some(row count).
run_query(conn) ==
  IF conn = "none"
  THEN { <<None, Some(DB_CONNECTION_ERROR)>> }
  ELSE { <<Some(n), None>> : n \in 0..MaxRows }
       \cup { <<None, Some(m)>> : m \in ErrorMessages }

\* -------------------------------------------------------------- Generator
\* lines 141-171: which prompt generate_sql_with_gpt assembles
BuildPrompt(user_question, failing_sql, error_message) ==
  IF Truthy(failing_sql) /\ TruthyMsg(error_message)
  THEN [shape |-> "Correction", question |-> user_question,
        failing_sql |-> failing_sql, error_message |-> error_message]
  ELSE [shape |-> "Initial", question |-> user_question,
        failing_sql |-> None, error_message |-> None]

\* lines 173-179: the backend raised (None) or answered with a text
BackendAnswers == {None} \cup { Some(r) : r \in ModelResponses }

generate_sql_with_gpt(answer) ==
  IF answer = None THEN None ELSE Some(extract_sql_from_response(answer[1]))

\* ------------------------------------------------------------- Controller
\* variant: tests only for None, so empty text counts as a query
InitialFailed_NoneOnly(sql) == sql = None

\* line 192: if not current_sql
InitialFailed(sql) == ~Truthy(sql)

\* line 195: while attempt <= MAX_ATTEMPTS
LoopGuard(a) == a <= MAX_ATTEMPTS

\* variant: the test inverted
IsSuccess_Inverted(err) == err # None

\* line 202: if error_message is None
IsSuccess(err) == err = None

\* line 205: return df, current_sql
SuccessReturn(df, sql) == <<df, sql>>

\* variants: the ceiling test off by one, either way
AtCeiling_OffByOneHigh(a) == a > MAX_ATTEMPTS
AtCeiling_OffByOneLow(a) == a = MAX_ATTEMPTS - 1

\* line 210: if attempt == MAX_ATTEMPTS
AtCeiling(a) == a = MAX_ATTEMPTS

\* variants: the counter stepped by two, the counter not stepped
NextAttempt_Skips(a) == a + 2
NextAttempt_Stuck(a) == a

\* line 215: attempt += 1
NextAttempt(a) == a + 1

\* variant: any answer that is not None counts as progress
IsProgress_Always(new_sql, cur) == new_sql # None

\* variant: the comparison with the current SQL left out
IsProgress_NoDistinctCheck(new_sql, cur) == Truthy(new_sql)

\* line 223: if new_sql and new_sql != current_sql
IsProgress(new_sql, cur) == Truthy(new_sql) /\ new_sql # cur

\* variant: returns the rejected candidate
NoProgressReturn_NewSql(new_sql, cur) == <<None, new_sql>>

\* line 227: return None, current_sql
NoProgressReturn(new_sql, cur) == <<None, cur>>

\* variant: an empty result set counted as a failure
Succeeded_NeedsRows(df) == df # None /\ df[1] > 0

\* line 316: if df is not None
Succeeded(df) == df # None

\* -------------------------------------------------------------- variables
VARIABLES
  connCache,        \* st.cache_resource slot of get_db_connection
  query_history,    \* st.session_state.query_history
  generated_sql,    \* st.session_state.generated_sql
  current_question, \* st.session_state.current_question
  pc,               \* where the running script is
  user_question,    \* local of main / execute_self_correcting_query
  current_sql,      \* local of execute_self_correcting_query
  attempt,          \* local of execute_self_correcting_query
  error_message,    \* local of execute_self_correcting_query
  ret,              \* value execute_self_correcting_query returned
  sessions,         \* questions submitted so far
  genCalls,         \* history: generate_sql_with_gpt calls of this session
  execCalls,        \* history: run_query calls of this session
  lastExec,         \* history: the last run_query call and its result
  lastGen,          \* history: the last generate_sql_with_gpt call
  connErrs,         \* history: run_query calls that found no connection
  genFails,         \* history: generation calls whose backend raised
  clientCache,      \* st.cache_resource slot of get_openai_client
  rerun,            \* history: the manual run or re-run in progress
  conc              \* concurrent invocations of the controller (SpecConc)

session == <<query_history, generated_sql, current_question>>
locals == <<user_question, current_sql, attempt, error_message, ret>>
history == <<genCalls, execCalls, lastExec, lastGen, connErrs, genFails>>
vars == <<connCache, session, pc, locals, sessions, history, clientCache,
          rerun, conc>>

NoExec == [kind |-> "none", sql |-> None, df |-> None, err |-> None, attempt |-> 0]
\* no concurrent invocation is running
NoConc == <<>>

\* get_openai_client under st.cache_resource (lines 122-126): built on the
\* first call, the memoized client afterwards
get_openai_client(cache) == IF cache = "unset" THEN "client" ELSE cache

NoGen == [args |-> <<>>, prompt |-> None, answer |-> None, result |-> None]

Init ==
  /\ connCache = "unset"
  /\ query_history = <<>>
  /\ generated_sql = None
  /\ current_question = None
  /\ pc = "idle"
  /\ user_question = <<>>
  /\ current_sql = None
  /\ attempt = 0
  /\ error_message = None
  /\ ret = None
  /\ sessions = 0
  /\ genCalls = 0
  /\ execCalls = 0
  /\ lastExec = NoExec
  /\ lastGen = NoGen
  /\ connErrs = 0
  /\ genFails = 0
  /\ clientCache = "unset"
  /\ rerun = None
  /\ conc = NoConc

\* what one call of generate_sql_with_gpt leaves in the history variables
GenCalled(q, failing_sql, err, answer) ==
  /\ clientCache' = get_openai_client(clientCache)
  /\ genCalls' = genCalls + 1
  /\ genFails' = genFails + (IF answer = None THEN 1 ELSE 0)
  /\ lastGen' = [args |-> <<q, failing_sql, err>>,
                 prompt |-> Some(BuildPrompt(q, failing_sql, err)),
                 answer |-> answer,
                 result |-> generate_sql_with_gpt(answer)]

\* main lines 305-308, then lines 185-186
Submit ==
  /\ pc = "idle"
  /\ sessions < MaxSessions
  /\ \E q \in Questions :
       /\ user_question' = Strip(q)
       /\ current_question' = Some(Strip(q))
  /\ generated_sql' = None
  /\ current_sql' = None
  /\ attempt' = 1
  /\ sessions' = sessions + 1
  /\ pc' = "generating"
  /\ UNCHANGED <<connCache, query_history, error_message, ret, history,
                 clientCache, rerun, conc>>

\* lines 189-193
GenerateInitial ==
  /\ pc = "generating"
  /\ \E answer \in BackendAnswers :
       LET sql == generate_sql_with_gpt(answer) IN
       /\ GenCalled(user_question, None, None, answer)
       /\ current_sql' = sql
       /\ IF InitialFailed(sql)
          THEN /\ ret' = Some(<<None, None>>)
               /\ pc' = "returned"
          ELSE /\ ret' = ret
               /\ pc' = "executing"
  /\ UNCHANGED <<connCache, session, user_question, attempt, error_message,
                 sessions, execCalls, lastExec, connErrs, rerun, conc>>

\* lines 195-215: the loop test, run_query, and the three ways on
Execute ==
  /\ pc = "executing"
  /\ IF ~LoopGuard(attempt)
     THEN \* line 229
          /\ ret' = Some(<<None, current_sql>>)
          /\ pc' = "returned"
          /\ UNCHANGED <<connCache, attempt, error_message, execCalls,
                         lastExec, connErrs>>
     ELSE \E conn \in get_db_connection(connCache) :
          \E res \in run_query(conn) :
            LET df == res[1]
                err == res[2]
            IN
            /\ connCache' = conn
            /\ execCalls' = execCalls + 1
            /\ connErrs' = connErrs + (IF conn = "none" THEN 1 ELSE 0)
            /\ lastExec' = [kind |-> IF conn = "none" THEN "conn"
                                     ELSE IF err = None THEN "ok" ELSE "query",
                            sql |-> current_sql, df |-> df, err |-> err,
                            attempt |-> attempt]
            /\ error_message' = err
            /\ IF IsSuccess(err)
               THEN /\ ret' = Some(SuccessReturn(df, current_sql))
                    /\ pc' = "returned"
                    /\ attempt' = attempt
               ELSE IF AtCeiling(attempt)
               THEN /\ ret' = Some(<<None, current_sql>>)
                    /\ pc' = "returned"
                    /\ attempt' = attempt
               ELSE /\ ret' = ret
                    /\ pc' = "correcting"
                    /\ attempt' = NextAttempt(attempt)
  /\ UNCHANGED <<session, user_question, current_sql, sessions, genCalls,
                 lastGen, genFails, clientCache, rerun, conc>>

\* lines 216-227
Correct ==
  /\ pc = "correcting"
  /\ \E answer \in BackendAnswers :
       LET new_sql == generate_sql_with_gpt(answer) IN
       /\ GenCalled(user_question, current_sql, error_message, answer)
       /\ IF IsProgress(new_sql, current_sql)
          THEN /\ current_sql' = new_sql
               /\ ret' = ret
               /\ pc' = "executing"
          ELSE /\ current_sql' = current_sql
               /\ ret' = Some(NoProgressReturn(new_sql, current_sql))
               /\ pc' = "returned"
  /\ UNCHANGED <<connCache, session, user_question, attempt, error_message,
                 sessions, execCalls, lastExec, connErrs, rerun, conc>>

\* the entry main appends for an outcome (lines 316-329)
HistoryEntry(q, df, final_sql) ==
  IF Succeeded(df)
  THEN [question |-> q, sql |-> final_sql, rows |-> df[1], success |-> TRUE]
  ELSE [question |-> q, sql |-> final_sql, rows |-> 0, success |-> FALSE]

\* main lines 313-332: take the outcome, store it, end of the script run
MainStore ==
  /\ pc = "returned"
  /\ LET df == ret[1][1]
         final_sql == ret[1][2]
     IN /\ generated_sql' = final_sql
        /\ query_history' = Append(query_history,
                                   HistoryEntry(user_question, df, final_sql))
  /\ pc' = "idle"
  /\ user_question' = <<>>
  /\ current_sql' = None
  /\ attempt' = 0
  /\ error_message' = None
  /\ ret' = None
  /\ genCalls' = 0
  /\ execCalls' = 0
  /\ lastExec' = NoExec
  /\ lastGen' = NoGen
  /\ connErrs' = 0
  /\ genFails' = 0
  /\ UNCHANGED <<connCache, current_question, sessions, clientCache, rerun,
                 conc>>

\* main lines 297-300: the Clear History button
ClearHistory ==
  /\ pc = "idle"
  /\ query_history' = <<>>
  /\ generated_sql' = None
  /\ current_question' = None
  /\ UNCHANGED <<connCache, pc, locals, sessions, history, clientCache, rerun,
                 conc>>

HISTORY_SHOWN == 5

\* variant: one entry more than meant is shown
Shown_OneMore(h) ==
  LET n == Len(h)
      first == IF n > HISTORY_SHOWN + 1 THEN n - HISTORY_SHOWN ELSE 1
      tail == SubSeq(h, first, n)
  IN  [k \in 1..Len(tail) |-> tail[Len(tail) - k + 1]]

\* line 367: reversed(st.session_state.query_history[-5:])
Shown(h) ==
  LET n == Len(h)
      first == IF n > HISTORY_SHOWN THEN n - HISTORY_SHOWN + 1 ELSE 1
      tail == SubSeq(h, first, n)
  IN  [k \in 1..Len(tail) |-> tail[Len(tail) - k + 1]]

\* texts the user can leave in the edit box: the stored query as it is,
\* another statement, nothing
EditedSqls(stored) == { stored, <<"z">>, <<>> }

\* one run_query(sql) call made outside a session (lines 352, 378): what it
\* returns and what it leaves in the history variables.  A text that is no
\* statement at all (None, empty) cannot succeed.
RunOnly(via, sql) ==
  /\ \E conn \in get_db_connection(connCache) :
     \E res \in { r \in run_query(conn) : Truthy(sql) \/ r[2] # None } :
       /\ connCache' = conn
       /\ connErrs' = connErrs + (IF conn = "none" THEN 1 ELSE 0)
       /\ rerun' = Some([via |-> via, sql |-> sql, df |-> res[1],
                         err |-> res[2], before |-> session])
  /\ execCalls' = execCalls + 1
  /\ pc' = "reran"
  /\ UNCHANGED <<locals, sessions, genCalls, lastExec, lastGen, genFails,
                 clientCache, conc>>

\* variant: the edited text is written back to the session
ManualRun_StoresEdit ==
  /\ pc = "idle"
  /\ Truthy(generated_sql)
  /\ \E edited_sql \in EditedSqls(generated_sql[1]) :
       /\ RunOnly("manual", Some(edited_sql))
       /\ generated_sql' = Some(edited_sql)
  /\ UNCHANGED <<query_history, current_question>>

\* main lines 338-359: the Manually Run Query button
ManualRun ==
  /\ pc = "idle"
  /\ Truthy(generated_sql)
  /\ \E edited_sql \in EditedSqls(generated_sql[1]) :
       RunOnly("manual", Some(edited_sql))
  /\ UNCHANGED session

\* main lines 364-382: a Re-run this query button of a shown entry
HistoryRerun ==
  /\ pc = "idle"
  /\ \E idx \in 1..Len(Shown(query_history)) :
       RunOnly("history", Shown(query_history)[idx].sql)
  /\ UNCHANGED session

\* lines 353-359, 379-382: the result is shown and the script run ends
RerunEnd ==
  /\ pc = "reran"
  /\ pc' = "idle"
  /\ execCalls' = 0
  /\ connErrs' = 0
  /\ rerun' = None
  /\ UNCHANGED <<connCache, session, locals, sessions, genCalls, lastExec,
                 lastGen, genFails, clientCache, conc>>

Next ==
  \/ Submit \/ GenerateInitial \/ Execute \/ Correct \/ MainStore
  \/ ClearHistory \/ ManualRun \/ HistoryRerun \/ RerunEnd

Spec == Init /\ [][Next]_vars

\* ---------------------------------------- the controller as a function
\* execute_self_correcting_query (lines 184-229) as a function of what its
\* calls answer: gens[k] is the answer to the k-th generation call,
\* execs[k] the (df, error_message) of the k-th run_query call.
RECURSIVE AloneLoop(_, _, _, _)
AloneLoop(cur, a, gens, execs) ==
  IF ~LoopGuard(a) THEN <<None, cur>>
  ELSE LET res == execs[a] IN
       IF IsSuccess(res[2]) THEN SuccessReturn(res[1], cur)
       ELSE IF AtCeiling(a) THEN <<None, cur>>
       ELSE LET new_sql == generate_sql_with_gpt(gens[NextAttempt(a)]) IN
            IF IsProgress(new_sql, cur)
            THEN AloneLoop(new_sql, NextAttempt(a), gens, execs)
            ELSE NoProgressReturn(new_sql, cur)

Alone(gens, execs) ==
  LET sql == generate_sql_with_gpt(gens[1]) IN
  IF InitialFailed(sql) THEN <<None, None>> ELSE AloneLoop(sql, 1, gens, execs)

\* ------------------------------------------- many questions, one browser
\* Bound on the questions submitted in the specification of the history.
MaxHistory == 6

\* What the calls of one session answer, for the sessions of SpecHist:
\* (1) the first query fails, the corrected one returns MaxRows rows;
\* (2) the initial generation call raises.
HistScripts ==
  { [gens |-> <<Some(<<"b", "\n">>), Some(<<" ", "a", " ">>)>>,
     execs |-> <<<<None, Some("syntax error")>>, <<Some(MaxRows), None>>>>],
    [gens |-> <<None>>, execs |-> <<>>] }

\* a browser session whose process has already connected and built the
\* model client, with an empty history
InitHist ==
  /\ connCache = "conn"
  /\ query_history = <<>>
  /\ generated_sql = None
  /\ current_question = None
  /\ pc = "idle"
  /\ user_question = <<>>
  /\ current_sql = None
  /\ attempt = 0
  /\ error_message = None
  /\ ret = None
  /\ sessions = 0
  /\ genCalls = 0
  /\ execCalls = 0
  /\ lastExec = NoExec
  /\ lastGen = NoGen
  /\ connErrs = 0
  /\ genFails = 0
  /\ clientCache = "client"
  /\ rerun = None
  /\ conc = NoConc

\* main lines 305-332 as one step: the whole run of the script for a
\* submitted question
SubmitQuestion ==
  /\ pc = "idle"
  /\ sessions < MaxHistory
  /\ \E q \in Questions : \E sc \in HistScripts :
       LET out == Alone(sc.gens, sc.execs) IN
       /\ current_question' = Some(Strip(q))
       /\ generated_sql' = out[2]
       /\ query_history' = Append(query_history,
                                  HistoryEntry(Strip(q), out[1], out[2]))
  /\ sessions' = sessions + 1
  /\ UNCHANGED <<connCache, pc, locals, history, clientCache, rerun, conc>>

NextHist == SubmitQuestion \/ ClearHistory

SpecHist == InitHist /\ [][NextHist]_vars

\* ------------------------------------------------ concurrent invocations
\* Two invocations of execute_self_correcting_query running at once (two
\* browser sessions of one server process).  conc holds, per invocation,
\* its position (pcs), its locals (loc), its return value (rets) and the
\* answers its calls got so far (gens, execs); actor is the invocation
\* that took the last step.
Invocations == {1, 2}

\* answers and results the calls get in SpecConc
ConcAnswers == { None, Some(<<" ", "a", " ">>), Some(<<"b", "\n">>) }

ConcResults(conn) ==
  { r \in run_query(conn) :
      /\ r[1] \in {None, Some(0)}
      /\ r[2] \in {None, Some("syntax error"), Some(DB_CONNECTION_ERROR)} }

\* variant: the locals kept in one place for all invocations (a module
\* global instead of function locals)
Slot_Shared(s) == 1

\* lines 185-186: current_sql and attempt are locals of the invocation
Slot(s) == s

InitConc ==
  /\ connCache = "unset"
  /\ query_history = <<>>
  /\ generated_sql = None
  /\ current_question = None
  /\ pc = "idle"
  /\ user_question = <<>>
  /\ current_sql = None
  /\ attempt = 0
  /\ error_message = None
  /\ ret = None
  /\ sessions = 0
  /\ genCalls = 0
  /\ execCalls = 0
  /\ lastExec = NoExec
  /\ lastGen = NoGen
  /\ connErrs = 0
  /\ genFails = 0
  /\ clientCache = "unset"
  /\ rerun = None
  /\ conc = [pcs |-> [s \in Invocations |-> "generating"],
             loc |-> [s \in Invocations |->
                        [current_sql |-> None, attempt |-> 1,
                         error_message |-> None]],
             rets |-> [s \in Invocations |-> None],
             gens |-> [s \in Invocations |-> <<>>],
             execs |-> [s \in Invocations |-> <<>>],
             actor |-> 0]

\* lines 189-193, invocation s
CGenerateInitial(s) ==
  /\ conc.pcs[s] = "generating"
  /\ \E answer \in ConcAnswers :
       LET sql == generate_sql_with_gpt(answer) IN
       conc' = [conc EXCEPT
                  !.loc[Slot(s)].current_sql = sql,
                  !.gens[s] = Append(@, answer),
                  !.pcs[s] = IF InitialFailed(sql) THEN "returned"
                             ELSE "executing",
                  !.rets[s] = IF InitialFailed(sql) THEN Some(<<None, None>>)
                              ELSE @,
                  !.actor = s]
  /\ clientCache' = get_openai_client(clientCache)
  /\ UNCHANGED <<connCache, session, pc, locals, sessions, history, rerun>>

\* lines 195-215, invocation s
CExecute(s) ==
  /\ conc.pcs[s] = "executing"
  /\ LET l == conc.loc[Slot(s)] IN
     IF ~LoopGuard(l.attempt)
     THEN /\ conc' = [conc EXCEPT !.pcs[s] = "returned",
                                  !.rets[s] = Some(<<None, l.current_sql>>),
                                  !.actor = s]
          /\ connCache' = connCache
     ELSE \E conn \in get_db_connection(connCache) :
          \E res \in ConcResults(conn) :
            /\ connCache' = conn
            /\ conc' =
                 [conc EXCEPT
                    !.execs[s] = Append(@, res),
                    !.loc[Slot(s)].error_message = res[2],
                    !.loc[Slot(s)].attempt =
                       IF IsSuccess(res[2]) \/ AtCeiling(l.attempt) THEN @
                       ELSE NextAttempt(@),
                    !.pcs[s] =
                       IF IsSuccess(res[2]) \/ AtCeiling(l.attempt)
                       THEN "returned" ELSE "correcting",
                    !.rets[s] =
                       IF IsSuccess(res[2])
                       THEN Some(SuccessReturn(res[1], l.current_sql))
                       ELSE IF AtCeiling(l.attempt)
                       THEN Some(<<None, l.current_sql>>)
                       ELSE @,
                    !.actor = s]
  /\ UNCHANGED <<session, pc, locals, sessions, history, clientCache, rerun>>

\* lines 216-227, invocation s
CCorrect(s) ==
  /\ conc.pcs[s] = "correcting"
  /\ LET l == conc.loc[Slot(s)] IN
     \E answer \in ConcAnswers :
       LET new_sql == generate_sql_with_gpt(answer) IN
       conc' = [conc EXCEPT
                  !.gens[s] = Append(@, answer),
                  !.loc[Slot(s)].current_sql =
                     IF IsProgress(new_sql, l.current_sql) THEN new_sql ELSE @,
                  !.pcs[s] = IF IsProgress(new_sql, l.current_sql)
                             THEN "executing" ELSE "returned",
                  !.rets[s] = IF IsProgress(new_sql, l.current_sql) THEN @
                              ELSE Some(NoProgressReturn(new_sql, l.current_sql)),
                  !.actor = s]
  /\ clientCache' = get_openai_client(clientCache)
  /\ UNCHANGED <<connCache, session, pc, locals, sessions, history, rerun>>

NextConc ==
  \E s \in Invocations : CGenerateInitial(s) \/ CExecute(s) \/ CCorrect(s)

SpecConc == InitConc /\ [][NextConc]_vars

\* Every blocking call of a session returns: generate_content (lines 190,
\* 217) and read_sql_query (line 200) are synchronous calls.
LiveSpec ==
  /\ Spec
  /\ WF_vars(GenerateInitial)
  /\ WF_vars(Execute)
  /\ WF_vars(Correct)

\* ------------------------------------------------------------ properties
\* line 313: df, final_sql = execute_self_correcting_query(user_question)
RetDf == ret[1][1]
RetSql == ret[1][2]

\* C1: once run_query has reported DB_CONNECTION_ERROR the session is over
\* at once: it has returned (no result, the SQL just tried), attempt is
\* still the attempt of that execution and the Generator has been called
\* once per attempt so far and not again (1 and 1 when the very first
\* execution finds no connection).
C1_ConnectionErrorEndsSession ==
  lastExec.kind = "conn" =>
    /\ pc = "returned"
    /\ ret = Some(<<None, lastExec.sql>>)
    /\ attempt = lastExec.attempt
    /\ genCalls = lastExec.attempt
    /\ execCalls = 1

\* C2: attempt never exceeds MAX_ATTEMPTS and a session calls
\* generate_sql_with_gpt at most MAX_ATTEMPTS times.
C2_AttemptsBounded ==
  /\ attempt <= MAX_ATTEMPTS
  /\ genCalls <= MAX_ATTEMPTS

C2_Witness ==
  /\ pc = "returned"
  /\ attempt = MAX_ATTEMPTS
  /\ genCalls = MAX_ATTEMPTS
  /\ execCalls = MAX_ATTEMPTS

\* C3: when run_query succeeds on attempt k the controller has returned
\* (that result set, the SQL run on attempt k), and the only step that
\* follows is main taking the outcome: no generation or execution call.
C3_SuccessEndsSession ==
  /\ [](lastExec.kind = "ok" =>
          /\ pc = "returned"
          /\ ret = Some(<<lastExec.df, lastExec.sql>>)
          /\ lastExec.df # None
          /\ attempt = lastExec.attempt)
  /\ [][lastExec.kind = "ok" =>
          /\ pc' = "idle"
          /\ genCalls' <= genCalls
          /\ execCalls' <= execCalls]_vars

C3_Witness ==
  /\ pc = "returned"
  /\ lastExec.kind = "ok"
  /\ lastExec.attempt = 2
  /\ RetDf = Some(MaxRows)

\* C4: a session that ends without a successful execution reports no
\* result set (succeeded = false), and if it executed anything its final
\* SQL is the SQL of the last execution.
C4_FailureOutcome ==
  (pc = "returned" /\ lastExec.kind # "ok") =>
    /\ RetDf = None
    /\ ~Succeeded(RetDf)
    /\ (execCalls >= 1 => RetSql = lastExec.sql)

C4_Witness ==
  /\ pc = "returned"
  /\ execCalls = 2
  /\ genCalls = 3
  /\ lastGen.answer = None
  /\ RetSql = lastExec.sql
  /\ RetSql # None

\* C5: a correction call whose SQL is empty or equal to the SQL that just
\* failed ends the session with (no result, that SQL), whatever the
\* attempt index, and no generation or execution call follows.
C5_NoProgressEndsSession ==
  /\ []((/\ genCalls >= 2
         /\ (lastGen.result = Some(<<>>) \/ lastGen.result = lastGen.args[2])) =>
          /\ pc = "returned"
          /\ ret = Some(<<None, lastGen.args[2]>>)
          /\ genCalls = execCalls + 1)
  /\ [][(/\ genCalls >= 2
         /\ (lastGen.result = Some(<<>>) \/ lastGen.result = lastGen.args[2])) =>
          /\ pc' = "idle"
          /\ genCalls' <= genCalls
          /\ execCalls' <= execCalls]_vars

C5_Witness ==
  /\ pc = "returned"
  /\ genCalls = 2
  /\ attempt = 2
  /\ attempt < MAX_ATTEMPTS
  /\ Truthy(lastGen.result)
  /\ lastGen.result = lastGen.args[2]

\* C6: at the end of a session a result set is returned exactly when the
\* last execution succeeded, and the success flag main records in the
\* history entry agrees with it.
C6_OutcomeConsistent ==
  /\ [](pc = "returned" =>
          /\ (RetDf # None) <=> (lastExec.kind = "ok")
          /\ (lastExec.kind = "ok") <=> (execCalls >= 1 /\ IsSuccess(lastExec.err))
          /\ Succeeded(RetDf) <=> (lastExec.kind = "ok"))
  /\ [][pc = "returned" =>
          /\ Len(query_history') = Len(query_history) + 1
          /\ query_history'[Len(query_history')].success = (lastExec.kind = "ok")
          /\ query_history'[Len(query_history')].success = (RetDf # None)]_vars

C6_Witness ==
  /\ pc = "idle"
  /\ Len(query_history) = 2
  /\ query_history[1].success
  /\ query_history[1].rows = 0
  /\ ~query_history[2].success

\* C7: the SQL a session returns is None exactly when the initial
\* generation call failed or gave empty text; then nothing was executed
\* and the outcome is (None, None).  Every other outcome carries a
\* non-empty SQL, also when a later correction call failed.
C7_NullSqlOnlyWithoutQuery ==
  pc = "returned" =>
    LET noQuery == genCalls = 1 /\ ~Truthy(lastGen.result)
    IN  /\ (RetSql = None) <=> noQuery
        /\ noQuery => (ret = Some(<<None, None>>) /\ execCalls = 0)
        /\ ~noQuery => Truthy(RetSql)

C7_Witness ==
  /\ pc = "returned"
  /\ genCalls = 1
  /\ lastGen.answer # None
  /\ lastGen.result = Some(<<>>)
  /\ ret = Some(<<None, None>>)

\* C8: after an execution failed with a query error below the ceiling, the
\* generation call that follows got the question, the SQL that failed and
\* the error message of that execution, and built the Correction prompt
\* carrying them.
C8_CorrectionCarriesFailure ==
  (genCalls >= 2 /\ genCalls = execCalls + 1 /\ lastExec.kind = "query") =>
    /\ lastGen.args = <<user_question, lastExec.sql, lastExec.err>>
    /\ lastGen.prompt = Some([shape |-> "Correction",
                              question |-> user_question,
                              failing_sql |-> lastExec.sql,
                              error_message |-> lastExec.err])

\* C9: a session in which every execution failed with a query error and
\* every correction gave a new non-empty SQL ends after exactly
\* MAX_ATTEMPTS generation calls and MAX_ATTEMPTS executions, with no
\* result and the SQL of attempt MAX_ATTEMPTS.
C9_ExhaustionOutcome ==
  (/\ pc = "returned"
   /\ lastExec.kind = "query"
   /\ Truthy(lastGen.result)
   /\ (genCalls >= 2 => lastGen.result # lastGen.args[2])) =>
    /\ genCalls = MAX_ATTEMPTS
    /\ execCalls = MAX_ATTEMPTS
    /\ lastExec.attempt = MAX_ATTEMPTS
    /\ attempt = MAX_ATTEMPTS
    /\ ret = Some(<<None, lastExec.sql>>)
    /\ lastExec.sql = lastGen.result
    /\ ~Succeeded(RetDf)

C9_Witness ==
  /\ pc = "returned"
  /\ lastExec.kind = "query"
  /\ lastExec.err = Some("syntax error")
  /\ execCalls = MAX_ATTEMPTS
  /\ genCalls = MAX_ATTEMPTS
  /\ lastGen.result # lastGen.args[2]
  /\ RetSql = lastGen.result

\* C10: every failure ends the session with a returned pair (result, SQL),
\* and within one session neither a connection failure nor a failure of
\* the generation backend is followed by another try: at most one
\* execution finds no connection and at most one generation call fails.
C10_FailuresTerminalNotRetried ==
  /\ connErrs <= 1
  /\ genFails <= 1
  /\ (genFails = 1 => pc = "returned")
  /\ (pc = "returned" => Len(ret[1]) = 2)

\* ------------------------------------------------- the extractor by itself
\* Bound on the length of the unfenced answers enumerated below.
MaxTextLen == 4

\* an answer with a fenced block: prose, fence and tag, interior, fence, prose
Fenced(pre, tag, ws1, body, ws2, post) ==
  pre \o <<BQ, BQ, BQ>> \o tag \o ws1 \o body \o ws2 \o <<BQ, BQ, BQ>> \o post

FencedTexts ==
  { Fenced(pre, tag, ws1, body, ws2, post) :
      pre \in { <<>>, <<"o", "k", " ">>, <<"s", "q", "l", ":", "\n">>,
                <<BQ, BQ, BQ, "\n", "x", "\n", BQ, BQ, BQ, "\n">> },
      tag \in { <<"s", "q", "l">>, <<"S", "Q", "L">>, <<"S", "q", "l">> },
      ws1 \in { <<>>, <<"\n">>, <<" ", "\n">> },
      body \in { <<>>, <<"a">>, <<"a", " ", "b">>, <<"a", "\n", "b">>,
                 <<BQ, "a", BQ, " ", "b">> },
      ws2 \in { <<>>, <<"\n">> },
      post \in { <<>>, <<" ", "o", "k">>, <<BQ>>,
                 <<"\n", BQ, BQ, BQ, "s", "q", "l", " ", "b", "\n", BQ, BQ, BQ>> } }

UnfencedTexts ==
  UNION { [1..n -> {" ", "\n", "a", BQ}] : n \in 0..MaxTextLen }
  \cup { <<BQ, BQ, BQ, "s", "q", "l", " ", "a", "\n">>,
         <<" ", BQ, BQ, BQ, "\n", "a", "\n", BQ, BQ, BQ>>,
         <<"s", "q", "l", " ", "a", BQ, BQ, BQ>> }

ExtractorTexts == FencedTexts \cup UnfencedTexts

\* the answer is in hand (line 174), extraction not yet done
InitExtract ==
  /\ connCache = "unset"
  /\ query_history = <<>>
  /\ generated_sql = None
  /\ current_question = None
  /\ pc = "extract"
  /\ user_question = <<>>
  /\ current_sql = None
  /\ attempt = 0
  /\ error_message = None
  /\ ret = None
  /\ sessions = 0
  /\ genCalls = 0
  /\ execCalls = 0
  /\ lastExec = NoExec
  /\ \E t \in ExtractorTexts : lastGen = [NoGen EXCEPT !.answer = Some(t)]
  /\ connErrs = 0
  /\ genFails = 0
  /\ clientCache = "client"
  /\ rerun = None
  /\ conc = NoConc

\* line 175: sql_query = extract_sql_from_response(response.text)
ExtractCall ==
  /\ pc = "extract"
  /\ lastGen' = [lastGen EXCEPT
                   !.result = Some(extract_sql_from_response(lastGen.answer[1]))]
  /\ pc' = "extracted"
  /\ UNCHANGED <<connCache, session, locals, sessions, genCalls, execCalls,
                 lastExec, connErrs, genFails, clientCache, rerun, conc>>

NextExtract == ExtractCall

SpecExtract == InitExtract /\ [][NextExtract]_vars

\* what the claims about the extractor speak of, stated on the text itself
OpensSqlFence(text, i) ==
  /\ i >= 1
  /\ i + 5 <= Len(text)
  /\ text[i] = BQ /\ text[i + 1] = BQ /\ text[i + 2] = BQ
  /\ text[i + 3] \in {"s", "S"}
  /\ text[i + 4] \in {"q", "Q"}
  /\ text[i + 5] \in {"l", "L"}

ClosesFence(text, j) ==
  /\ j >= 1
  /\ j + 2 <= Len(text)
  /\ text[j] = BQ /\ text[j + 1] = BQ /\ text[j + 2] = BQ

\* (i, j): a block opened by a sql-tagged fence at i whose interior runs
\* up to the first closing fence, at j
IsSqlBlock(text, i, j) ==
  /\ OpensSqlFence(text, i)
  /\ j >= i + 6
  /\ ClosesFence(text, j)
  /\ \A k \in (i + 6)..(j - 1) : ~ClosesFence(text, k)

\* r is s without its leading and trailing whitespace
IsTrimOf(r, s) ==
  \E i \in 1..(Len(s) + 1) :
    /\ i + Len(r) - 1 <= Len(s)
    /\ \A k \in 1..Len(r) : s[i + k - 1] = r[k]
    /\ \A k \in 1..(i - 1) : IsSpace(s[k])
    /\ \A k \in (i + Len(r))..Len(s) : IsSpace(s[k])
    /\ (r = <<>> \/ (~IsSpace(r[1]) /\ ~IsSpace(r[Len(r)])))

\* C11 as stated: whichever sql-tagged block an answer contains, the
\* extractor returns that block's interior, trimmed.
C11_EveryBlockRoundTrips ==
  pc = "extracted" =>
    LET text == lastGen.answer[1] IN
    \A i \in 1..Len(text) : \A j \in 1..Len(text) :
      IsSqlBlock(text, i, j) =>
        IsTrimOf(lastGen.result[1], SubSeq(text, i + 6, j - 1))

\* C11 amended: the extractor returns the trimmed interior of the FIRST
\* sql-tagged block of the answer (tag in any letter case), whatever
\* precedes or follows that block.
C11_FirstBlockRoundTrips ==
  pc = "extracted" =>
    LET text == lastGen.answer[1] IN
    \A i \in 1..Len(text) : \A j \in 1..Len(text) :
      (/\ IsSqlBlock(text, i, j)
       /\ \A h \in 1..(i - 1) : ~OpensSqlFence(text, h)) =>
        IsTrimOf(lastGen.result[1], SubSeq(text, i + 6, j - 1))

C11_Witness ==
  /\ pc = "extracted"
  /\ lastGen.answer = Some(Fenced(<<"o", "k", " ">>, <<"S", "Q", "L">>,
                                  <<" ", "\n">>, <<"a", "\n", "b">>, <<"\n">>,
                                  <<" ", "o", "k">>))
  /\ lastGen.result = Some(<<"a", "\n", "b">>)

\* C12: an answer without a sql-tagged fenced block comes back whole, with
\* only its leading and trailing whitespace removed, also when it is not
\* SQL at all.
C12_FallbackTrimsWholeText ==
  pc = "extracted" =>
    LET text == lastGen.answer[1] IN
    (\A i \in 1..Len(text) : \A j \in 1..Len(text) : ~IsSqlBlock(text, i, j)) =>
      /\ lastGen.result # None
      /\ IsTrimOf(lastGen.result[1], text)

C12_Witness ==
  /\ pc = "extracted"
  /\ lastGen.answer = Some(<<BQ, BQ, BQ, "s", "q", "l", " ", "a", "\n">>)
  /\ lastGen.result = Some(<<BQ, BQ, BQ, "s", "q", "l", " ", "a">>)

\* C13: a manual run or a history re-run calls run_query exactly once and
\* generate_sql_with_gpt not at all, and leaves generated_sql,
\* current_question and query_history as they were, whether the query
\* succeeds or fails.
C13_RerunBypassesGeneration ==
  /\ [](pc = "reran" =>
          /\ rerun # None
          /\ execCalls = 1
          /\ genCalls = 0
          /\ lastGen = NoGen
          /\ session = rerun[1].before)
  /\ [][pc = "reran" =>
          /\ pc' = "idle"
          /\ session' = session
          /\ genCalls' = genCalls
          /\ execCalls' <= execCalls]_vars

C13_Witness ==
  /\ pc = "reran"
  /\ rerun[1].via = "manual"
  /\ rerun[1].sql = Some(<<"z">>)
  /\ rerun[1].err # None
  /\ generated_sql = Some(<<"a">>)
  /\ Len(query_history) = 2

\* C15: a session starts with attempt = 1; while it runs, attempt changes
\* only by +1, only in the step where an execution failed below the
\* ceiling, and every entry into a correction cycle is such a step.
C15_AttemptStepsByOne ==
  /\ [](pc \in {"generating", "executing", "correcting", "returned"} =>
          attempt >= 1)
  /\ [][(pc = "idle" /\ pc' = "generating") => attempt' = 1]_vars
  /\ [][(pc \in {"generating", "executing", "correcting"}) =>
          \/ attempt' = attempt /\ pc' # "correcting"
          \/ /\ attempt' = attempt + 1
             /\ pc = "executing"
             /\ pc' = "correcting"
             /\ execCalls' = execCalls + 1
             /\ lastExec'.kind # "ok"
             /\ lastExec'.attempt = attempt
             /\ attempt < MAX_ATTEMPTS]_vars

C15_Witness ==
  /\ pc = "correcting"
  /\ attempt = MAX_ATTEMPTS
  /\ lastExec.attempt = MAX_ATTEMPTS - 1
  /\ execCalls = MAX_ATTEMPTS - 1

\* C16: provided every call returns, a session that has started reaches
\* the point where execute_self_correcting_query has returned, and it never
\* makes more than MAX_ATTEMPTS executions.
C16_SessionTerminates ==
  /\ [](execCalls <= MAX_ATTEMPTS)
  /\ [](pc \in {"generating", "executing", "correcting"} => ret = None)
  /\ (pc = "generating") ~> (pc = "returned" /\ ret # None)

C16_Witness ==
  /\ pc = "returned"
  /\ ret # None
  /\ execCalls = MAX_ATTEMPTS
  /\ lastExec.kind = "ok"

\* C17: a correction answer that is non-empty and differs from the current
\* SQL becomes the current SQL and is what the next execution runs; so
\* every execution after the first runs a text different from the one run
\* just before it.
C17_ProgressAdopted ==
  /\ [][pc = "correcting" =>
          IF Truthy(lastGen'.result) /\ lastGen'.result # current_sql
          THEN pc' = "executing" /\ current_sql' = lastGen'.result
          ELSE pc' = "returned" /\ current_sql' = current_sql]_vars
  /\ [][(pc = "executing" /\ execCalls' = execCalls + 1) =>
          /\ lastExec'.sql = current_sql
          /\ Truthy(lastExec'.sql)
          /\ (execCalls >= 1 =>
                /\ lastExec'.sql # lastExec.sql
                /\ lastExec'.sql = lastGen.result)]_vars

C17_Witness ==
  /\ pc = "returned"
  /\ execCalls = 2
  /\ genCalls = 2
  /\ lastExec.sql = lastGen.result
  /\ lastExec.sql # lastGen.args[2]
  /\ lastExec.kind = "ok"

\* C19: the connection is made (or found impossible) in the first run_query
\* call of the process and never again: once the slot is filled it keeps
\* its value, every run_query call works on that value, also when it is
\* "no connection"; likewise the model client.
C19_MemoizedSingletons ==
  /\ [][connCache # "unset" => connCache' = connCache]_vars
  /\ [][clientCache # "unset" => clientCache' = clientCache]_vars
  /\ [][connCache' # connCache => execCalls' = execCalls + 1]_vars
  /\ [][clientCache' # clientCache => genCalls' = genCalls + 1]_vars
  /\ [][execCalls' = execCalls + 1 => connCache' # "unset"]_vars
  /\ [][genCalls' = genCalls + 1 => clientCache' = "client"]_vars
  /\ [](lastExec.kind \in {"ok", "query"} => connCache = "conn")
  /\ [](lastExec.kind = "conn" => connCache = "none")
  /\ [](rerun # None =>
          ((rerun[1].err = Some(DB_CONNECTION_ERROR)) <=> (connCache = "none")))

C19_Witness ==
  /\ connCache = "none"
  /\ sessions = 2
  /\ pc = "reran"
  /\ rerun[1].err = Some(DB_CONNECTION_ERROR)
  /\ query_history[1].sql # None

\* C18 as stated: the stored history never holds more than the N entries
\* that are shown.
C18_HistoryAtMostN == Len(query_history) <= HISTORY_SHOWN

\* C18 amended: what is shown of the history is its last N entries at most,
\* newest first; the stored list itself only grows, one entry per
\* question, until Clear History empties it.
C18_ShownAtMostN ==
  /\ [](LET sh == Shown(query_history)
            n == Len(query_history)
        IN  /\ Len(sh) <= HISTORY_SHOWN
            /\ Len(sh) = (IF n < HISTORY_SHOWN THEN n ELSE HISTORY_SHOWN)
            /\ \A k \in 1..Len(sh) : sh[k] = query_history[n - k + 1])
  /\ [][query_history' # query_history =>
          \/ query_history' = <<>>
          \/ /\ Len(query_history') = Len(query_history) + 1
             /\ SubSeq(query_history', 1, Len(query_history)) = query_history]_vars

C18_Witness ==
  /\ Len(query_history) = HISTORY_SHOWN + 1
  /\ Len(Shown(query_history)) = HISTORY_SHOWN
  /\ Shown(query_history)[HISTORY_SHOWN] = query_history[2]
  /\ query_history[1].success
  /\ ~query_history[2].success

\* C20: every session that ends appends one entry whose success flag says
\* whether a result set came back, whose row count is that of the result
\* (0 on failure), whose SQL is the final SQL and is a non-empty text; so
\* every history re-run hands a SQL statement to run_query.
C20_HistoryEntryHasSql ==
  /\ [][pc = "returned" =>
          LET e == query_history'[Len(query_history')] IN
          /\ Len(query_history') = Len(query_history) + 1
          /\ SubSeq(query_history', 1, Len(query_history)) = query_history
          /\ e.success = (RetDf # None)
          /\ e.rows = (IF RetDf # None THEN RetDf[1] ELSE 0)
          /\ e.sql = RetSql
          /\ Truthy(e.sql)]_vars
  /\ []((rerun # None /\ rerun[1].via = "history") => Truthy(rerun[1].sql))

\* C14: with two invocations interleaved in any way, the attempt counter
\* and current SQL of an invocation change only in that invocation's own
\* steps, and what an invocation returns is what the controller returns
\* alone on the answers its own calls got; the connection slot is the one
\* thing both work on.
C14_InvocationsIsolated ==
  /\ [][\A t \in Invocations :
          (conc'.loc[t] # conc.loc[t] \/ conc'.pcs[t] # conc.pcs[t]
           \/ conc'.rets[t] # conc.rets[t]) => conc'.actor = t]_vars
  /\ [](\A s \in Invocations :
          /\ conc.pcs[s] = "returned" =>
               conc.rets[s] = Some(Alone(conc.gens[s], conc.execs[s]))
          /\ conc.pcs[s] # "returned" => conc.rets[s] = None
          /\ conc.loc[s].attempt <= MAX_ATTEMPTS
          /\ Len(conc.execs[s]) > 0 =>
               ((conc.execs[s][1][2] = Some(DB_CONNECTION_ERROR))
                  <=> (connCache = "none")))

C14_Witness ==
  /\ conc # NoConc
  /\ conc.pcs[1] = "returned"
  /\ conc.pcs[2] = "returned"
  /\ conc.actor = 1
  /\ conc.rets[1] = Some(<<Some(0), Some(<<"b">>)>>)
  /\ Len(conc.execs[1]) = 2
  /\ conc.rets[2] = Some(<<None, Some(<<"b">>)>>)
  /\ Len(conc.execs[2]) = MAX_ATTEMPTS
====
